---- MODULE Spec2Model ----
(***************************************************************************)
(* A model of the 2captcha client of src/twocaptcha.go: the three public   *)
(* operations SolveRecaptchaV2, SolveRecaptchaV3 and ReportBadCaptcha and  *)
(* the request/retry primitive apiRequest they share.                      *)
(*                                                                         *)
(* Go strings are sequences of one-character strings, so that              *)
(* strings.Contains, the comparison with the acknowledgement and the slice *)
(* body[3:] are computed on characters.  A time.Duration is a 64-bit       *)
(* integer, kept as 8 little-endian limbs of 8 bits, so that the product   *)
(* delay * time.Second keeps its width.                                    *)
(***************************************************************************)
EXTENDS Integers, Sequences, FiniteSets, TLC

VARIABLES
    c,          \* the client handle: [ApiKey]
    op,         \* the public operation running: "none", "V2", "V3", "Report"
    args,       \* the arguments of the public operation
    phase,      \* where the public operation is: "idle", "submit", "poll",
                \* "report", "retEarly" (line 56 / 96), "retFinal"
    pc,         \* where the primitive is: "none", "entry", "await", "ret"
    frame,      \* the arguments of the current apiRequest activation
    lastBody,   \* the body read last in this call of the primitive; a body
                \* with the not-ready marker is dropped by the next activation
    ret,        \* the value returned by the primitive: [val, err]
    captchaId,  \* the local captchaId of SolveRecaptchaV2 / V3
    result,     \* what the public operation returned: [token, id, err]
    trace,      \* history: the sleeps, requests and replies of this call
    others      \* the goroutines that are not running now: for each one the
                \* values of op .. trace it resumes with (they are locals and
                \* parameters of its own stack); empty when one goroutine calls

vars == <<c, op, args, phase, pc, frame, lastBody, ret, captchaId, result, trace,
          others>>

----------------------------------------------------------------------------
(* Bounds of the model *)

\* the longest run of other characters in a reply body
MaxFill == 1

\* the largest retry count a caller of SolveRecaptchaV2 passes
MaxRetries == 2

----------------------------------------------------------------------------
(* String literals of the source *)

ApiURL ==
    <<"h", "t", "t", "p", "s", ":", "/", "/", "2", "c", "a", "p", "t", "c", "h", "a", ".", "c", "o", "m", "/", "i", "n", ".", "p", "h", "p">>

ResultURL ==
    <<"h", "t", "t", "p", "s", ":", "/", "/", "2", "c", "a", "p", "t", "c", "h", "a", ".", "c", "o", "m", "/", "r", "e", "s", ".", "p", "h", "p">>

NotReadyMarker ==
    <<"C", "A", "P", "C", "H", "A", "_", "N", "O", "T", "_", "R", "E", "A", "D", "Y">>

ReportAck ==
    <<"O", "K", "_", "R", "E", "P", "O", "R", "T", "_", "R", "E", "C", "O", "R", "D", "E", "D">>

OkPrefix ==
    <<"O", "K", "|">>

RetriesMsg ==
    <<"M", "a", "x", "i", "m", "u", "m", " ", "r", "e", "t", "r", "i", "e", "s", " ", "e", "x", "c", "e", "e", "d", "e", "d">>

InvalidMsg ==
    <<"I", "n", "v", "a", "l", "i", "d", " ", "r", "e", "s", "p", "p", "o", "n", "s", "e", " ", "f", "r", "o", "m", " ", "2", "c", "a", "p", "t", "c", "h", "a", ":", " ">>

S_reportbad ==
    <<"r", "e", "p", "o", "r", "t", "b", "a", "d">>

S_get ==
    <<"g", "e", "t">>

S_userrecaptcha ==
    <<"u", "s", "e", "r", "r", "e", "c", "a", "p", "t", "c", "h", "a">>

S_v3 ==
    <<"v", "3">>

\* the empty Go string
EmptyStr == <<>>

----------------------------------------------------------------------------
(* Inputs: what callers pass and what the service replies *)

S_login ==
    <<"l", "o", "g", "i", "n">>

ApiKeys == {<<"k", "1">>}

SiteURLs == {<<"u">>}

SiteKeys == {<<"s">>}

\* action labels a caller of SolveRecaptchaV3 passes
ActionLabels == {S_login, S_reportbad}

\* minimum scores a caller of SolveRecaptchaV3 passes, in hundredths
MinScores == {30, 95}

\* challenge IDs a caller of ReportBadCaptcha passes
ReportIds == {<<"a">>}

RECURSIVE Filler(_)
\* n characters that belong to none of the literals the source looks for
Filler(n) == IF n = 0 THEN EmptyStr ELSE <<"a">> \o Filler(n - 1)

\* what a reply body is made of: nothing, one of the three literals the source
\* looks for, or at most MaxFill other characters
BodyParts ==
    {OkPrefix, NotReadyMarker, ReportAck} \cup {Filler(n) : n \in 0..MaxFill}

\* the reply bodies: two parts, one after the other
Bodies == {x \o y : x \in BodyParts, y \in BodyParts}

\* kinds of transport failure: c.Client.Do fails, ioutil.ReadAll fails
TransportErrs == {"do", "read"}

----------------------------------------------------------------------------
(* time.Duration: int64 as 8 limbs of 8 bits, least significant first *)

DurZero == <<0, 0, 0, 0, 0, 0, 0, 0>>

\* a small non-negative integer as a Duration (the untyped constants 0 and 5)
DurOf(n) == <<n % 256, (n \div 256) % 256, 0, 0, 0, 0, 0, 0>>

\* time.Second = 1000000000 ns = 0x3B9ACA00
Second == <<0, 202, 154, 59, 0, 0, 0, 0>>

RECURSIVE ConvSum(_, _, _, _)
ConvSum(a, b, k, i) ==
    IF i > k THEN 0 ELSE a[i] * b[k + 1 - i] + ConvSum(a, b, k, i + 1)

RECURSIVE MulLimbs(_, _, _, _)
MulLimbs(a, b, k, carry) ==
    IF k > Len(a) THEN <<>>
    ELSE LET t == ConvSum(a, b, k, 1) + carry
         IN  <<t % 256>> \o MulLimbs(a, b, k + 1, t \div 256)

\* the Go product of two Durations: the low 64 bits of the product
DurMul(a, b) == MulLimbs(a, b, 1, 0)

\* delays a caller of SolveRecaptchaV2 passes: 0, 1ns, and 10 * time.Second
\* (10000000000 ns = 0x2540BE400)
Delays == {DurZero, DurOf(1), <<0, 228, 11, 84, 2, 0, 0, 0>>}

----------------------------------------------------------------------------
(* Helpers of the standard library that the source uses *)

\* s[from:] of Go, from counted from 0; the slice panics when from > len(s)
SliceFrom(s, from) == SubSeq(s, from + 1, Len(s))

\* strings.Contains(s, substr)
Contains(s, substr) ==
    \E i \in 0..(Len(s) - Len(substr)) :
        SubSeq(s, i + 1, i + Len(substr)) = substr

\* params[k] of a Go map: the zero value "" when the key is absent
MapGet(params, k) == IF k \in DOMAIN params THEN params[k] ELSE EmptyStr

Digit(n) == <<"0", "1", "2", "3", "4", "5", "6", "7", "8", "9">>[n + 1]

\* the hundredths h with h % 10 = 5 whose float64 lies at or above the
\* midpoint and is printed upwards (0.25 and 0.75 are exact ties, to even)
RoundsUp == {5, 45, 55, 65, 75}

\* fmt.Sprintf("%.1f", minScore) for minScore = h / 100, 0 <= h <= 100
FormatScore(h) ==
    LET t == IF h % 10 > 5 \/ h \in RoundsUp THEN h \div 10 + 1 ELSE h \div 10
    IN  <<Digit(t \div 10), ".", Digit(t % 10)>>

\* url.Values after form.Add("key", c.ApiKey) and form.Add(k, v) for each param
\* the form holds the parameters only
BuildForm_NoKey(apiKey, params) == [k \in DOMAIN params |-> <<params[k]>>]

BuildForm(apiKey, params) ==
    [k \in {"key"} \cup DOMAIN params |->
        IF k = "key"
        THEN <<apiKey>> \o (IF "key" \in DOMAIN params THEN <<params["key"]>> ELSE <<>>)
        ELSE <<params[k]>>]

----------------------------------------------------------------------------
(* Errors and return values *)

NoErr == [kind |-> "nil", msg |-> EmptyStr]

\* errors.New("Maximum retries exceeded")
RetriesExceeded == [kind |-> "retries", msg |-> RetriesMsg]

InvalidResponse_NoBody(body) == [kind |-> "invalid", msg |-> InvalidMsg]

\* errors.New("Invalid respponse from 2captcha: " + string(body))
InvalidResponse(body) == [kind |-> "invalid", msg |-> InvalidMsg \o body]

\* the error of c.Client.Do or ioutil.ReadAll
TransportError(e) == [kind |-> "transport", msg |-> <<e>>]

NoBody == [read |-> FALSE, body |-> EmptyStr]

NoParams == [k \in {} |-> EmptyStr]

NoFrame == [URL |-> EmptyStr, params |-> NoParams, delay |-> DurZero, retries |-> 0]

NoRet == [val |-> EmptyStr, err |-> NoErr]

NoResult == [token |-> EmptyStr, id |-> EmptyStr, err |-> NoErr]

NoArgs == [siteURL |-> EmptyStr]

\* New(apiKey)
New(apiKey) == [ApiKey |-> apiKey]

----------------------------------------------------------------------------
(* The decisions of apiRequest *)

\* the last retry is never used
RetriesExhausted_One(retries) == retries <= 1

RetriesExhausted_Strict(retries) == retries < 0

\* line 128: the guard  retries <= 0
RetriesExhausted(retries) == retries <= 0

\* line 131: the argument of time.Sleep(delay * time.Second)
SleepArg(delay) == DurMul(delay, Second)

\* the body is compared with the marker
IsNotReady_Exact(body) == body = NotReadyMarker

\* line 153: strings.Contains(string(body), "CAPCHA_NOT_READY")
IsNotReady(body) == Contains(body, NotReadyMarker)

\* the count is passed on as it is
RetryCount_Same(retries) == retries

RetryCount_Two(retries) == retries - 2

\* line 154: the retry count of the recursive call
RetryCount(retries) == retries - 1

\* every operation is validated as a solve request
\* no body is rejected
IsInvalid_AcceptAll(params, body) == FALSE

IsInvalid_SolveOnly(params, body) == ~Contains(body, OkPrefix)

\* line 156: the condition under which the body is rejected
IsInvalid(params, body) ==
    \/ MapGet(params, "action") = S_reportbad /\ body # ReportAck
    \/ MapGet(params, "action") # S_reportbad /\ ~Contains(body, OkPrefix)

Payload_FromTwo(body) == SliceFrom(body, 2)

\* line 159: string(body[3:])
Payload(body) == SliceFrom(body, 3)

----------------------------------------------------------------------------
(* The fixed budgets of the public operations *)

V2SubmitDelay == DurOf(0)

V2SubmitRetries_More == 3 + 1

V2SubmitRetries == 3

\* the unit is forgotten
PreWait_Nanos == DurOf(10)

\* line 59: the argument of time.Sleep(10 * time.Second)
PreWait == DurMul(DurOf(10), Second)

V3SubmitDelay == DurOf(0)

V3SubmitRetries == 3

\* the unit is applied twice
V3PollDelay_Scaled == DurMul(DurOf(5), Second)

V3PollDelay == DurOf(5)

V3PollRetries == 20

ReportDelay == DurOf(0)

ReportRetries == 3

----------------------------------------------------------------------------
(* Events of the history *)

SleepEv(d) == [type |-> "sleep", d |-> d]

\* a request handed to c.Client.Do, with the activation's delay and retries
SendEv(URL, form, delay, retries) ==
    [type |-> "send", URL |-> URL, form |-> form, delay |-> delay, retries |-> retries]

\* a reply whose body was read; nr tells whether it held the not-ready marker
RecvEv(body) == [type |-> "recv", nr |-> Contains(body, NotReadyMarker)]

\* a call of apiRequest by a public operation, with its arguments
CallEv(URL, params, delay, retries) ==
    [type |-> "call", URL |-> URL, params |-> params, delay |-> delay, retries |-> retries]

\* a failure of c.Client.Do or ioutil.ReadAll
FailEv(e) == [type |-> "fail", e |-> e]

----------------------------------------------------------------------------
(* Parameters of the requests *)

V2SubmitParams(siteURL, recaptchaKey) ==
    [googlekey |-> recaptchaKey, pageurl |-> siteURL, method |-> S_userrecaptcha]

V3SubmitParams(siteURL, recaptchaKey, action, minScore) ==
    [googlekey |-> recaptchaKey, pageurl |-> siteURL, method |-> S_userrecaptcha,
     version |-> S_v3, action |-> action, min_score |-> FormatScore(minScore)]

PollParams(siteURL, recaptchaKey, id) ==
    [googlekey |-> recaptchaKey, pageurl |-> siteURL, method |-> S_userrecaptcha,
     id |-> id, action |-> S_get]

ReportParams(id) == [id |-> id, action |-> S_reportbad]

----------------------------------------------------------------------------
(* State after construction *)

Init ==
    /\ c \in {New(k) : k \in ApiKeys}
    /\ op = "none"
    /\ args = NoArgs
    /\ phase = "idle"
    /\ pc = "none"
    /\ frame = NoFrame
    /\ lastBody = NoBody
    /\ ret = NoRet
    /\ captchaId = EmptyStr
    /\ result = NoResult
    /\ trace = <<>>
    /\ others = <<>>

\* a public operation starts on the handle and makes its first call of
\* apiRequest; a call keeps no state of the calls before it, so a behaviour
\* follows one call from the constructed handle to its return
Begin(name, a, ph, URL, params, delay, retries) ==
    /\ phase = "idle"
    /\ op' = name
    /\ args' = a
    /\ phase' = ph
    /\ pc' = "entry"
    /\ frame' = [URL |-> URL, params |-> params, delay |-> delay, retries |-> retries]
    /\ lastBody' = NoBody
    /\ ret' = NoRet
    /\ captchaId' = EmptyStr
    /\ result' = NoResult
    /\ trace' = <<CallEv(URL, params, delay, retries)>>
    /\ UNCHANGED c
    /\ UNCHANGED others

----------------------------------------------------------------------------
(* apiRequest, lines 127-160 *)

\* lines 128-130: no retries left
ApiExhausted ==
    /\ pc = "entry"
    /\ RetriesExhausted(frame.retries)
    /\ ret' = [val |-> EmptyStr, err |-> RetriesExceeded]
    /\ lastBody' = NoBody
    /\ pc' = "ret"
    /\ UNCHANGED <<c, op, args, phase, frame, captchaId, result, trace>>
    /\ UNCHANGED others

\* lines 131-144: sleep, build the form and hand the request to the transport.
\* http.NewRequest cannot fail for the method "POST" and the two URLs.
ApiSend ==
    /\ pc = "entry"
    /\ ~RetriesExhausted(frame.retries)
    /\ trace' = trace \o <<SleepEv(SleepArg(frame.delay)),
                           SendEv(frame.URL, BuildForm(c.ApiKey, frame.params),
                                  frame.delay, frame.retries)>>
    /\ lastBody' = NoBody
    /\ pc' = "await"
    /\ UNCHANGED <<c, op, args, phase, frame, ret, captchaId, result>>
    /\ UNCHANGED others

\* the failure is taken for a not-ready reply
ApiTransportError_Retry(e) ==
    /\ pc = "await"
    /\ trace' = trace \o <<FailEv(e)>>
    /\ lastBody' = NoBody
    /\ frame' = [frame EXCEPT !.retries = RetryCount(frame.retries)]
    /\ pc' = "entry"
    /\ UNCHANGED <<c, op, args, phase, ret, captchaId, result>>
    /\ UNCHANGED others

\* lines 145-151: c.Client.Do or ioutil.ReadAll fails
ApiTransportError(e) ==
    /\ pc = "await"
    /\ trace' = trace \o <<FailEv(e)>>
    /\ lastBody' = NoBody
    /\ ret' = [val |-> EmptyStr, err |-> TransportError(e)]
    /\ pc' = "ret"
    /\ UNCHANGED <<c, op, args, phase, frame, captchaId, result>>
    /\ UNCHANGED others

\* lines 148-159: the body is read and interpreted
ApiReply(body) ==
    /\ pc = "await"
    /\ trace' = trace \o <<RecvEv(body)>>
    /\ IF IsNotReady(body)
       THEN \* line 154: a new activation
            /\ frame' = [frame EXCEPT !.retries = RetryCount(frame.retries)]
            /\ lastBody' = [read |-> TRUE, body |-> body]
            /\ pc' = "entry"
            /\ UNCHANGED ret
       ELSE IF IsInvalid(frame.params, body)
       THEN /\ ret' = [val |-> EmptyStr, err |-> InvalidResponse(body)]
            /\ lastBody' = [read |-> TRUE, body |-> body]
            /\ pc' = "ret"
            /\ UNCHANGED frame
       ELSE IF Len(body) < 3
       THEN \* body[3:] is out of range: the goroutine panics
            /\ lastBody' = [read |-> TRUE, body |-> body]
            /\ pc' = "panic"
            /\ UNCHANGED <<frame, ret>>
       ELSE /\ ret' = [val |-> Payload(body), err |-> NoErr]
            /\ lastBody' = [read |-> TRUE, body |-> body]
            /\ pc' = "ret"
            /\ UNCHANGED frame
    /\ UNCHANGED <<c, op, args, phase, captchaId, result>>
    /\ UNCHANGED others

----------------------------------------------------------------------------
(* SolveRecaptchaV2, lines 43-74 *)

CallV2(siteURL, recaptchaKey, delay, retries) ==
    Begin("V2",
          [siteURL |-> siteURL, recaptchaKey |-> recaptchaKey,
           delay |-> delay, retries |-> retries],
          "submit", ApiURL, V2SubmitParams(siteURL, recaptchaKey),
          V2SubmitDelay, V2SubmitRetries)

\* lines 55-72: the submission returned
V2AfterSubmit ==
    /\ op = "V2" /\ phase = "submit" /\ pc = "ret"
    /\ captchaId' = ret.val
    /\ IF ret.err # NoErr
       THEN /\ result' = [token |-> EmptyStr, id |-> EmptyStr, err |-> ret.err]
            /\ phase' = "retEarly"
            /\ pc' = "none"
            /\ UNCHANGED <<frame, lastBody, trace>>
       ELSE /\ trace' = trace \o
                  <<SleepEv(PreWait),
                    CallEv(ResultURL,
                           PollParams(args.siteURL, args.recaptchaKey, ret.val),
                           args.delay, args.retries)>>
            /\ frame' = [URL |-> ResultURL,
                         params |-> PollParams(args.siteURL, args.recaptchaKey, ret.val),
                         delay |-> args.delay, retries |-> args.retries]
            /\ lastBody' = NoBody
            /\ phase' = "poll"
            /\ pc' = "entry"
            /\ UNCHANGED result
    /\ UNCHANGED <<c, op, args, ret>>
    /\ UNCHANGED others

\* the challenge ID is returned only with a token
V2AfterPoll_DropsId ==
    /\ op = "V2" /\ phase = "poll" /\ pc = "ret"
    /\ result' = [token |-> ret.val,
                  id |-> IF ret.err # NoErr THEN EmptyStr ELSE captchaId,
                  err |-> ret.err]
    /\ phase' = "retFinal"
    /\ pc' = "none"
    /\ UNCHANGED <<c, op, args, frame, lastBody, ret, captchaId, trace>>
    /\ UNCHANGED others

\* line 73: the poll returned
V2AfterPoll ==
    /\ op = "V2" /\ phase = "poll" /\ pc = "ret"
    /\ result' = [token |-> ret.val, id |-> captchaId, err |-> ret.err]
    /\ phase' = "retFinal"
    /\ pc' = "none"
    /\ UNCHANGED <<c, op, args, frame, lastBody, ret, captchaId, trace>>
    /\ UNCHANGED others

----------------------------------------------------------------------------
(* SolveRecaptchaV3, lines 80-111 *)

CallV3(siteURL, recaptchaKey, action, minScore) ==
    Begin("V3",
          [siteURL |-> siteURL, recaptchaKey |-> recaptchaKey,
           action |-> action, minScore |-> minScore],
          "submit", ApiURL, V3SubmitParams(siteURL, recaptchaKey, action, minScore),
          V3SubmitDelay, V3SubmitRetries)

\* lines 95-110: the submission returned
V3AfterSubmit ==
    /\ op = "V3" /\ phase = "submit" /\ pc = "ret"
    /\ captchaId' = ret.val
    /\ IF ret.err # NoErr
       THEN /\ result' = [token |-> EmptyStr, id |-> EmptyStr, err |-> ret.err]
            /\ phase' = "retEarly"
            /\ pc' = "none"
            /\ UNCHANGED <<frame, lastBody, trace>>
       ELSE /\ trace' = trace \o
                  <<CallEv(ResultURL,
                           PollParams(args.siteURL, args.recaptchaKey, ret.val),
                           V3PollDelay, V3PollRetries)>>
            /\ frame' = [URL |-> ResultURL,
                         params |-> PollParams(args.siteURL, args.recaptchaKey, ret.val),
                         delay |-> V3PollDelay, retries |-> V3PollRetries]
            /\ lastBody' = NoBody
            /\ phase' = "poll"
            /\ pc' = "entry"
            /\ UNCHANGED result
    /\ UNCHANGED <<c, op, args, ret>>
    /\ UNCHANGED others

\* lines 99-110: the poll returned; SolveRecaptchaV3 returns no challenge ID
V3AfterPoll ==
    /\ op = "V3" /\ phase = "poll" /\ pc = "ret"
    /\ result' = [token |-> ret.val, id |-> EmptyStr, err |-> ret.err]
    /\ phase' = "retFinal"
    /\ pc' = "none"
    /\ UNCHANGED <<c, op, args, frame, lastBody, ret, captchaId, trace>>
    /\ UNCHANGED others

----------------------------------------------------------------------------
(* ReportBadCaptcha, lines 113-125 *)

CallReportBad(id) ==
    Begin("Report", [captchaId |-> id], "report", ResultURL, ReportParams(id),
          ReportDelay, ReportRetries)

\* line 124: only the error is returned
ReportReturn ==
    /\ op = "Report" /\ phase = "report" /\ pc = "ret"
    /\ result' = [token |-> EmptyStr, id |-> EmptyStr, err |-> ret.err]
    /\ phase' = "retFinal"
    /\ pc' = "none"
    /\ UNCHANGED <<c, op, args, frame, lastBody, ret, captchaId, trace>>
    /\ UNCHANGED others

----------------------------------------------------------------------------

\* retry counts a caller of SolveRecaptchaV2 passes
RetryCounts == (0 - 1)..MaxRetries

Next ==
    \/ \E u \in SiteURLs, k \in SiteKeys, d \in Delays, r \in RetryCounts :
           CallV2(u, k, d, r)
    \/ \E u \in SiteURLs, k \in SiteKeys, a \in ActionLabels, m \in MinScores :
           CallV3(u, k, a, m)
    \/ \E id \in ReportIds : CallReportBad(id)
    \/ ApiExhausted
    \/ ApiSend
    \/ \E e \in TransportErrs : ApiTransportError(e)
    \/ \E b \in Bodies : ApiReply(b)
    \/ V2AfterSubmit
    \/ V2AfterPoll
    \/ V3AfterSubmit
    \/ V3AfterPoll
    \/ ReportReturn

Spec == Init /\ [][Next]_vars

TypeOK ==
    /\ op \in {"none", "V2", "V3", "Report"}
    /\ phase \in {"idle", "submit", "poll", "report", "retEarly", "retFinal"}
    /\ pc \in {"none", "entry", "await", "ret", "panic"}

----------------------------------------------------------------------------
(* Reading the history *)

IsSend(i, URL) == trace[i].type = "send" /\ trace[i].URL = URL

IsSleep(i) == trace[i].type = "sleep"

\* a reply at position i whose body held the not-ready marker
IsNotReadyReply(i) == trace[i].type = "recv" /\ trace[i].nr

\* a reply at position i whose body did not hold the marker
IsOtherReply(i) == trace[i].type = "recv" /\ ~trace[i].nr

Sends(URL) == {i \in DOMAIN trace : IsSend(i, URL)}

\* the primitive has returned and its frame, body and value are still there
Returned == pc = "ret" \/ phase \in {"retEarly", "retFinal"}

\* the action parameter of the current activation
FrameAction == MapGet(frame.params, "action")

StartsWith(s, prefix) ==
    Len(s) >= Len(prefix) /\ SubSeq(s, 1, Len(prefix)) = prefix

----------------------------------------------------------------------------
(* C1: an activation of apiRequest whose retry count is <= 0 returns the
   retries-exceeded error at once: its next step is the return, with an
   empty value, and neither a sleep nor a request is added to the history. *)
C1_ExhaustedFailsAtOnce ==
    [][(pc = "entry" /\ frame.retries <= 0)
          => /\ pc' = "ret"
             /\ ret' = [val |-> EmptyStr, err |-> RetriesExceeded]
             /\ trace' = trace]_vars

\* the poll of SolveRecaptchaV2 was called with a negative count and returned
C1_Witness ==
    /\ pc = "ret" /\ op = "V2" /\ phase = "poll"
    /\ frame.retries < 0
    /\ ret.err = RetriesExceeded
    /\ Sends(ResultURL) = {}

(* C2, as claimed: every not-ready reply, whatever the count of the request
   it answers (1 included), is followed by exactly one more request to the
   same endpoint with the same delay and a count lower by one.  Stated on
   the calls that have returned. *)
C2_EveryNotReadyReplyIsRetried ==
    Returned =>
        \A i \in DOMAIN trace :
            IsNotReadyReply(i) =>
                /\ i + 2 <= Len(trace)
                /\ IsSleep(i + 1)
                /\ trace[i + 2] = [trace[i - 1] EXCEPT !.retries = @ - 1]

(* C2, amended: a not-ready reply to a request sent with count n > 1 leaves
   the activation with count n - 1 and the same delay, and the next events
   are one sleep equal to the sleep before the previous request and one
   request equal to the previous one but for the count; a not-ready reply to a request sent with count 1 leaves
   count 0, is followed by no request, and the call returns retries
   exceeded. *)
C2_NotReadyReplyConsumesOneRetry ==
    \A i \in DOMAIN trace :
        IsNotReadyReply(i) =>
            LET s == trace[i - 1] IN
            /\ s.type = "send" /\ s.retries >= 1
            /\ s.retries > 1 =>
                 IF i = Len(trace)
                 THEN /\ pc = "entry"
                      /\ frame.retries = s.retries - 1
                      /\ frame.delay = s.delay
                 ELSE /\ i + 2 <= Len(trace)
                      /\ trace[i + 1] = trace[i - 2]
                      /\ trace[i + 2] = [s EXCEPT !.retries = @ - 1]
                      /\ i + 3 <= Len(trace) => trace[i + 3].type \in {"recv", "fail"}
            /\ s.retries = 1 =>
                 /\ i = Len(trace)
                 /\ frame.retries = 0
                 /\ pc # "entry" => Returned /\ ret.err = RetriesExceeded

\* a request sent with count 2 was retried, the retry sent with count 1 got
\* a not-ready reply too, and the call returned
C2_Witness ==
    /\ pc = "ret"
    /\ Len(trace) >= 6
    /\ IsNotReadyReply(Len(trace)) /\ trace[Len(trace) - 1].retries = 1
    /\ IsNotReadyReply(Len(trace) - 3) /\ trace[Len(trace) - 4].retries = 2
    /\ ret.err = RetriesExceeded

(* C3: when an activation whose action parameter is not "reportbad" reads a
   body OK|<token> without the not-ready marker, it returns no error and the
   value <token>: the body is the three characters OK| followed by the
   returned value. *)
C3_OkBodyReturnsToken ==
    (/\ lastBody.read
     /\ FrameAction # S_reportbad
     /\ StartsWith(lastBody.body, OkPrefix)
     /\ ~Contains(lastBody.body, NotReadyMarker))
        => /\ Returned
           /\ ret.err = NoErr
           /\ lastBody.body = <<"O", "K", "|">> \o ret.val

\* the body OK|a was read and the value a returned
C3_Witness ==
    /\ pc = "ret"
    /\ FrameAction # S_reportbad
    /\ lastBody = [read |-> TRUE, body |-> <<"O", "K", "|", "a">>]
    /\ ret = [val |-> <<"a">>, err |-> NoErr]

(* C4, as claimed: an activation whose action parameter is not "reportbad"
   and whose body has no not-ready marker returns no error exactly when the
   body begins with OK|, and returns the unexpected-body error for every
   other body, also when OK| occurs in it at a later offset. *)
C4_OnlyOkShapeSucceeds ==
    (pc = "ret" /\ lastBody.read /\ FrameAction # S_reportbad)
        => IF StartsWith(lastBody.body, OkPrefix)
           THEN ret.err = NoErr
           ELSE ret.err = [kind |-> "invalid", msg |-> InvalidMsg \o lastBody.body]

(* C5: ReportBadCaptcha returns no error exactly when the last body it read
   is OK_REPORT_RECORDED; for every other body without the not-ready marker,
   OK|a included, it returns the unexpected-body error built from that
   body. *)
C5_ReportBadNeedsExactAck ==
    (op = "Report" /\ phase = "retFinal")
        => /\ result.err = NoErr <=>
                lastBody = [read |-> TRUE, body |-> ReportAck]
           /\ (lastBody.read /\ lastBody.body # ReportAck) =>
                result.err = [kind |-> "invalid", msg |-> InvalidMsg \o lastBody.body]

\* ReportBadCaptcha read OK|a and returned the unexpected-body error
C5_Witness ==
    /\ op = "Report" /\ phase = "retFinal"
    /\ lastBody = [read |-> TRUE, body |-> <<"O", "K", "|", "a">>]
    /\ result.err.kind = "invalid"

\* the success shape the primitive recognises for the action parameter of the
\* activation: the exact acknowledgement for "reportbad", else a body that
\* contains OK|
C6_Recognised ==
    IF FrameAction = S_reportbad
    THEN lastBody.body = ReportAck
    ELSE Contains(lastBody.body, OkPrefix)

(* C6: when the body read has no not-ready marker and is not the success
   shape recognised for the activation, the primitive returns an empty value
   and an error whose message contains the body; that reply is the last
   event of the call, the retry count is the one the request was sent with,
   and the public operation returns that same error. *)
C6_UnexpectedBodyFailsWithBody ==
    (lastBody.read /\ ~Contains(lastBody.body, NotReadyMarker) /\ ~C6_Recognised)
        => /\ Returned
           /\ ret.val = EmptyStr
           /\ ret.err.kind = "invalid"
           /\ Contains(ret.err.msg, lastBody.body)
           /\ Len(ret.err.msg) > Len(lastBody.body)
           /\ IsOtherReply(Len(trace))
           /\ trace[Len(trace) - 1].type = "send"
           /\ trace[Len(trace) - 1].retries = frame.retries
           /\ phase \in {"retEarly", "retFinal"} => result.err = ret.err

\* the first request of a budget of 3 got the body "a"
C6_Witness ==
    /\ phase = "retEarly"
    /\ lastBody = [read |-> TRUE, body |-> <<"a">>]
    /\ frame.retries = 3
    /\ Len(trace) = 4
    /\ result.err.kind = "invalid"

\* 10 * time.Second = 10000000000 ns = 0x2540BE400
TenSeconds == <<0, 228, 11, 84, 2, 0, 0, 0>>

\* 5 * time.Second = 5000000000 ns = 0x12A05F200
FiveSeconds == <<0, 242, 5, 42, 1, 0, 0, 0>>

(* C7: in SolveRecaptchaV2, once the submission has succeeded the history
   holds a sleep of 10 seconds right after the accepted submission reply,
   after every submission request and before every result request; while
   the submission runs and when it has failed there is no result request and
   every sleep is the one the primitive makes before a submission request. *)
C7_TenSecondsBetweenSubmitAndPoll ==
    op = "V2" =>
        /\ phase \in {"poll", "retFinal"} =>
             \E j \in DOMAIN trace :
                 /\ trace[j] = [type |-> "sleep", d |-> TenSeconds]
                 /\ j > 1 /\ IsOtherReply(j - 1)
                 /\ \A i \in Sends(ApiURL) : i < j - 1
                 /\ \A i \in Sends(ResultURL) : i > j
        /\ phase \in {"submit", "retEarly"} =>
             /\ Sends(ResultURL) = {}
             /\ \A i \in DOMAIN trace :
                    IsSleep(i) => i < Len(trace) /\ IsSend(i + 1, ApiURL)
        /\ phase = "retEarly" => result.err # NoErr

\* the first result request is out, with a caller's delay that is not zero
C7_Witness ==
    /\ op = "V2" /\ phase = "poll" /\ pc = "await"
    /\ args.delay = TenSeconds
    /\ Cardinality(Sends(ResultURL)) = 1

Max(a, b) == IF a >= b THEN a ELSE b

(* C8: in SolveRecaptchaV2 at most 3 requests go to the submission endpoint
   and at most max(retries, 0) to the result endpoint, so at most
   3 + max(retries, 0) in all; the k-th result request is sent with count
   retries - (k - 1), whatever the submission consumed. *)
C8_SeparateBudgets ==
    op = "V2" =>
        /\ Cardinality(Sends(ApiURL)) <= 3
        /\ Cardinality(Sends(ResultURL)) <= Max(args.retries, 0)
        /\ Cardinality(Sends(ApiURL) \cup Sends(ResultURL)) <= 3 + Max(args.retries, 0)
        /\ \A i \in Sends(ResultURL) :
               trace[i].retries =
                   args.retries - Cardinality({k \in Sends(ResultURL) : k < i})

\* the submission used its 3 requests and the poll all of the caller's
C8_Witness ==
    /\ op = "V2" /\ phase = "retFinal"
    /\ args.retries >= 2
    /\ Cardinality(Sends(ApiURL)) = 3
    /\ Cardinality(Sends(ResultURL)) = args.retries

(* C9: in SolveRecaptchaV3, whatever the arguments, at most 3 requests go to
   the submission endpoint, each after a sleep of 0, and at most 20 to the
   result endpoint, each right after a sleep of 5 seconds and sent with
   delay 5 and count 20 - (k - 1); every sleep is followed by a request, so
   there is no other wait; and when the 20th reply is not-ready the
   operation returns the retries-exceeded error. *)
C9_V3FixedPollBudget ==
    op = "V3" =>
        /\ Cardinality(Sends(ApiURL)) <= 3
        /\ Cardinality(Sends(ResultURL)) <= 20
        /\ \A i \in Sends(ApiURL) : trace[i - 1] = [type |-> "sleep", d |-> DurZero]
        /\ \A i \in Sends(ResultURL) :
               /\ trace[i - 1] = [type |-> "sleep", d |-> FiveSeconds]
               /\ trace[i].retries = 20 - Cardinality({k \in Sends(ResultURL) : k < i})
        /\ \A i \in DOMAIN trace :
               IsSleep(i) => i < Len(trace) /\ trace[i + 1].type = "send"
        /\ (/\ phase = "retFinal"
            /\ Cardinality(Sends(ResultURL)) = 20
            /\ IsNotReadyReply(Len(trace)))
               => result = [token |-> EmptyStr, id |-> EmptyStr, err |-> RetriesExceeded]

\* 20 result requests were sent and the operation returned retries exceeded
C9_Witness ==
    /\ op = "V3" /\ phase = "retFinal"
    /\ Cardinality(Sends(ResultURL)) = 20
    /\ result.err = RetriesExceeded

(* C10, as claimed: every call of the primitive made by SolveRecaptchaV2 or
   SolveRecaptchaV3 that read a body without the not-ready marker returns no
   error exactly when the body contains OK|, whatever the action label, and
   a call made by ReportBadCaptcha exactly when the body is
   OK_REPORT_RECORDED. *)
C10_OnlyReportBadNeedsAck ==
    (pc = "ret" /\ lastBody.read)
        => IF op = "Report"
           THEN ret.err = NoErr <=> lastBody.body = ReportAck
           ELSE ret.err = NoErr <=> Contains(lastBody.body, OkPrefix)

(* C11: a failure of the transport is the last event of the call: the
   primitive has returned an empty value and that very error, the retry
   count is still the one the request was sent with, and the public
   operation returns the same error with an empty token. *)
C11_TransportErrorReturnsAtOnce ==
    \A i \in DOMAIN trace :
        trace[i].type = "fail" =>
            /\ i = Len(trace)
            /\ trace[i - 1].type = "send"
            /\ Returned
            /\ ret = [val |-> EmptyStr,
                      err |-> [kind |-> "transport", msg |-> <<trace[i].e>>]]
            /\ frame.retries = trace[i - 1].retries
            /\ phase \in {"retEarly", "retFinal"} =>
                   /\ result.err = ret.err
                   /\ result.token = EmptyStr

\* the second request of a budget of 3 failed and the operation returned
C11_Witness ==
    /\ phase \in {"retEarly", "retFinal"}
    /\ trace[Len(trace)].type = "fail"
    /\ frame.retries = 2
    /\ result.err.kind = "transport"

----------------------------------------------------------------------------
(* The current call of the primitive in the history *)

CallIdx == {k \in DOMAIN trace : trace[k].type = "call"}

\* the position of the call event of the current call of apiRequest
LastCall == CHOOSE k \in CallIdx : \A j \in CallIdx : j <= k

\* the retry count the current call was made with
CallRetries == trace[LastCall].retries

\* the requests of the current call
SendsOfCall == {i \in DOMAIN trace : i > LastCall /\ trace[i].type = "send"}

\* the replies of the current call that held the not-ready marker
NotReadyOfCall == {i \in DOMAIN trace : i > LastCall /\ IsNotReadyReply(i)}

Min(a, b) == IF a <= b THEN a ELSE b

\* every request gets a reply or a transport error
Arrival ==
    \/ \E e \in TransportErrs : ApiTransportError(e)
    \/ \E b \in Bodies : ApiReply(b)

\* the goroutine runs its own steps, and every request sent is answered
FairSpec ==
    /\ Spec
    /\ WF_vars(ApiExhausted \/ ApiSend)
    /\ WF_vars(Arrival)

(* C12: if every request is answered, a call of the primitive made with
   count n returns (done, or failed with an error); it never has sent more
   than max(n, 0) requests; its remaining count never is below min(n, 0),
   and a not-ready reply makes it strictly smaller without taking it below
   0. *)
C12_CallTerminatesWithinBudget ==
    /\ (pc = "entry" ~> pc = "ret")
    /\ [](op # "none" =>
            /\ Cardinality(SendsOfCall) <= Max(CallRetries, 0)
            /\ frame.retries >= Min(CallRetries, 0)
            /\ pc # "panic")
    /\ [][(/\ pc = "await"
            /\ Len(trace') = Len(trace) + 1
            /\ trace'[Len(trace')].type = "recv"
            /\ trace'[Len(trace')].nr)
             => /\ frame'.retries < frame.retries
                /\ frame'.retries >= 0]_vars

\* a call made with count 3 has failed after exactly 3 requests
C12_Witness ==
    /\ pc = "ret"
    /\ CallRetries = 3
    /\ Cardinality(SendsOfCall) = 3
    /\ frame.retries = 0
    /\ ret.err = RetriesExceeded

(* C13: once a call of the primitive made with count n > 0 has returned, its
   error is retries exceeded exactly when it got n replies and all of them
   held the not-ready marker, and then it has sent n requests and no more;
   when its last reply did not hold the marker it returned no error or the
   unexpected-body error, and when the transport failed, that error. *)
C13_RetriesExceededOnlyAfterNReplies ==
    (pc = "ret" /\ CallRetries > 0) =>
        LET last == trace[Len(trace)] IN
        /\ ret.err = RetriesExceeded <=>
               /\ Cardinality(NotReadyOfCall) = CallRetries
               /\ last.type = "recv" /\ last.nr
        /\ ret.err = RetriesExceeded => Cardinality(SendsOfCall) = CallRetries
        /\ (last.type = "recv" /\ ~last.nr) => ret.err.kind \in {"nil", "invalid"}
        /\ last.type = "fail" => ret.err.kind = "transport"
        /\ last.type \in {"recv", "fail"}

\* the poll of SolveRecaptchaV3 got 19 not-ready replies and then another
\* body, and did not return retries exceeded
C13_Witness ==
    /\ pc = "ret" /\ op = "V3" /\ phase = "poll"
    /\ Cardinality(NotReadyOfCall) = 19
    /\ Cardinality(SendsOfCall) = 20
    /\ ret.err.kind = "invalid"

\* the body read last holds the not-ready marker
C14_NotReadyBody == lastBody.read /\ Contains(lastBody.body, NotReadyMarker)

(* C14: a step that reads a body with the not-ready marker, whatever else
   the body holds and whatever the operation, returns nothing: it leaves the
   primitive at the entry of its next activation; and the step after it
   either sleeps and sends the next request or returns the retries-exceeded
   error. *)
C14_NotReadyComesFirst ==
    [][/\ C14_NotReadyBody' =>
             /\ pc' = "entry"
             /\ ret' = ret
       /\ C14_NotReadyBody =>
             \/ /\ pc' = "await"
                /\ Len(trace') = Len(trace) + 2
                /\ trace'[Len(trace')].type = "send"
             \/ /\ pc' = "ret"
                /\ ret' = [val |-> EmptyStr, err |-> RetriesExceeded]
                /\ trace' = trace]_vars

\* ReportBadCaptcha read an acknowledgement followed by the marker, and
\* is about to retry
C14_Witness ==
    /\ op = "Report" /\ pc = "entry"
    /\ lastBody = [read |-> TRUE, body |-> ReportAck \o NotReadyMarker]
    /\ frame.retries = 2

(* C15: before each request the primitive sleeps for exactly the delay it
   was given: the duration of the sleep that precedes a request equals the
   delay of that request's activation, with no scaling and no wrap-around. *)
C15_SleepsForTheGivenDelay ==
    \A i \in DOMAIN trace :
        trace[i].type = "send" =>
            /\ trace[i - 1].type = "sleep"
            /\ trace[i - 1].d = trace[i].delay

\* the request at i is the first one of its call of the primitive
C16_FirstOfCall(i) == trace[i - 2].type = "call"

(* C16: every request carries the client's API key and the parameters of its
   call of the primitive, to the endpoint of that call; a request that follows
   a not-ready reply equals the request before it but for the remaining
   retries, which are one less; and the step that reads a not-ready reply
   changes nothing of the activation but its retries, and leaves the client
   alone. *)
C16_RetriesResendTheSameRequest ==
    /\ [](\A i \in DOMAIN trace :
            trace[i].type = "send" =>
                /\ "key" \in DOMAIN trace[i].form
                /\ trace[i].form["key"][1] = c.ApiKey
                /\ IF C16_FirstOfCall(i)
                   THEN LET call == trace[i - 2] IN
                        /\ trace[i].URL = call.URL
                        /\ trace[i].delay = call.delay
                        /\ trace[i].retries = call.retries
                        /\ DOMAIN trace[i].form = DOMAIN call.params \cup {"key"}
                        /\ \A p \in DOMAIN call.params \ {"key"} :
                               trace[i].form[p] = <<call.params[p]>>
                   ELSE /\ IsNotReadyReply(i - 2)
                        /\ trace[i] = [trace[i - 3] EXCEPT !.retries = @ - 1])
    /\ [](op = "Report" =>
            \A i \in DOMAIN trace :
                trace[i].type = "send" =>
                    /\ DOMAIN trace[i].form = {"key", "id", "action"}
                    /\ trace[i].form["id"] = <<args.captchaId>>
                    /\ trace[i].form["action"] = <<S_reportbad>>)
    /\ [][(pc = "await" /\ pc' = "entry") =>
             /\ frame' = [frame EXCEPT !.retries = @ - 1]
             /\ c' = c]_vars

\* a result request of SolveRecaptchaV3 was sent again after a not-ready reply
C16_Witness ==
    /\ op = "V3" /\ phase = "poll" /\ pc = "await"
    /\ Cardinality(SendsOfCall) = 2
    /\ trace[Len(trace)].retries = 19
    /\ trace[Len(trace)].form["key"] = <<c.ApiKey>>

(* C18: in SolveRecaptchaV2 the challenge ID is the payload the submission
   step returned: it is fixed when the submission returns without error, is
   the id field of every result request, and is returned with whatever the
   poll returned, the token being empty when the poll failed; a failed
   submission returns an empty token and an empty ID with its error, and
   sends no result request. *)
C18_ChallengeIdSurvivesPollFailure ==
    /\ [][(op = "V2" /\ phase = "submit" /\ phase' = "poll") =>
             /\ ret.err = NoErr
             /\ ret.val = SliceFrom(lastBody.body, 3)
             /\ captchaId' = ret.val]_vars
    /\ [][(op = "V2" /\ phase = "submit" /\ phase' = "retEarly") =>
             /\ ret.err # NoErr
             /\ result' = [token |-> EmptyStr, id |-> EmptyStr, err |-> ret.err]
             /\ Sends(ResultURL) = {}]_vars
    /\ [][(op = "V2" /\ phase \in {"poll", "retFinal"}) => captchaId' = captchaId]_vars
    /\ [](op = "V2" =>
            /\ \A i \in Sends(ResultURL) : trace[i].form["id"] = <<captchaId>>
            /\ phase = "retFinal" =>
                 /\ result.id = captchaId
                 /\ result.err = ret.err
                 /\ result.token = ret.val
                 /\ result.err # NoErr => result.token = EmptyStr)

\* the poll ran out of retries and the ID of the submission is returned
C18_Witness ==
    /\ op = "V2" /\ phase = "retFinal"
    /\ result = [token |-> EmptyStr, id |-> <<"a">>, err |-> RetriesExceeded]
    /\ Cardinality(SendsOfCall) = 2

(* C19: the slice body[3:] of line 159 is taken only of a body of at least
   three characters, whatever the operation and the reply: the primitive
   never fails with an index out of range, and a value returned without error
   is what follows the first three characters of the body read. *)
C19_PayloadSliceIsInRange ==
    /\ pc # "panic"
    /\ (pc = "ret" /\ ret.err = NoErr) =>
           /\ lastBody.read
           /\ Len(lastBody.body) >= 3
           /\ ret.val = SliceFrom(lastBody.body, 3)

\* the shortest body that is sliced: OK| alone, with an empty payload
C19_Witness ==
    /\ pc = "ret"
    /\ lastBody = [read |-> TRUE, body |-> OkPrefix]
    /\ ret = [val |-> EmptyStr, err |-> NoErr]

----------------------------------------------------------------------------
(* Several public operations on one client handle, each in its own goroutine.
   apiRequest and the public operations keep everything but the handle in
   parameters and locals, and nothing writes the handle after New, so a
   goroutine's state is its own values of op .. trace; c is the shared handle.
   The variables op .. trace hold the values of the goroutine that takes the
   next step, others the values of the goroutines that wait. *)

\* the number of goroutines that call the client
NumCalls == 2

\* the values of the goroutine that runs
Running ==
    [op |-> op, args |-> args, phase |-> phase, pc |-> pc, frame |-> frame,
     lastBody |-> lastBody, ret |-> ret, captchaId |-> captchaId,
     result |-> result, trace |-> trace]

\* a goroutine that has not called the client yet
NotStarted ==
    [op |-> "none", args |-> NoArgs, phase |-> "idle", pc |-> "none",
     frame |-> NoFrame, lastBody |-> NoBody, ret |-> NoRet,
     captchaId |-> EmptyStr, result |-> NoResult, trace |-> <<>>]

\* the replies of the service the goroutines get: not ready, or a payload
ConcBodies == {NotReadyMarker, OkPrefix \o <<"a">>}

ConcInit ==
    /\ c \in {New(k) : k \in ApiKeys}
    /\ op = "none"
    /\ args = NoArgs
    /\ phase = "idle"
    /\ pc = "none"
    /\ frame = NoFrame
    /\ lastBody = NoBody
    /\ ret = NoRet
    /\ captchaId = EmptyStr
    /\ result = NoResult
    /\ trace = <<>>
    /\ others = [g \in 1..(NumCalls - 1) |-> NotStarted]

\* the retries are one variable of the client, not a parameter of the call
Switch_SharedFrame(g) ==
    /\ g \in DOMAIN others
    /\ others' = [others EXCEPT ![g] = Running]
    /\ op' = others[g].op
    /\ args' = others[g].args
    /\ phase' = others[g].phase
    /\ pc' = others[g].pc
    /\ frame' = IF others[g].pc = "none" THEN others[g].frame ELSE frame
    /\ lastBody' = others[g].lastBody
    /\ ret' = others[g].ret
    /\ captchaId' = others[g].captchaId
    /\ result' = others[g].result
    /\ trace' = others[g].trace
    /\ UNCHANGED c

\* the scheduler lets goroutine g take the next step
Switch(g) ==
    /\ g \in DOMAIN others
    /\ others' = [others EXCEPT ![g] = Running]
    /\ op' = others[g].op
    /\ args' = others[g].args
    /\ phase' = others[g].phase
    /\ pc' = others[g].pc
    /\ frame' = others[g].frame
    /\ lastBody' = others[g].lastBody
    /\ ret' = others[g].ret
    /\ captchaId' = others[g].captchaId
    /\ result' = others[g].result
    /\ trace' = others[g].trace
    /\ UNCHANGED c

ConcNext ==
    \/ \E id \in ReportIds : CallReportBad(id)
    \/ \E u \in SiteURLs, k \in SiteKeys : CallV2(u, k, DurZero, 1)
    \/ ApiExhausted
    \/ ApiSend
    \/ \E b \in ConcBodies : ApiReply(b)
    \/ V2AfterSubmit
    \/ V2AfterPoll
    \/ ReportReturn
    \/ \E g \in DOMAIN others : Switch(g)

ConcSpec == ConcInit /\ [][ConcNext]_vars

\* all goroutines
Goroutines == {Running} \cup {others[g] : g \in DOMAIN others}

\* the position of the last call of the primitive in a goroutine's history
CallOf(x) ==
    CHOOSE k \in DOMAIN x.trace :
        /\ x.trace[k].type = "call"
        /\ \A j \in DOMAIN x.trace : x.trace[j].type = "call" => j <= k

\* the not-ready replies a goroutine read in its current call of the primitive
NotReadyRepliesOf(x) ==
    {i \in DOMAIN x.trace :
        i > CallOf(x) /\ x.trace[i].type = "recv" /\ x.trace[i].nr}

\* the requests a goroutine has sent
SendsOf(x) == {i \in DOMAIN x.trace : x.trace[i].type = "send"}

(* C17: with several goroutines on one client handle, under every
   interleaving, the retries a goroutine has left are those its call was
   made with less the not-ready replies it read itself; a goroutine has a
   request in flight exactly when the last event of its own history is a
   request, and between two of its requests it read a reply; and a step of
   one goroutine changes nothing of the others, a not-ready reply lowering
   the retries of the goroutine that read it by one. *)
C17_CallsDoNotShareRetries ==
    /\ [](\A x \in Goroutines :
            x.op # "none" =>
                /\ x.frame.retries =
                       x.trace[CallOf(x)].retries - Cardinality(NotReadyRepliesOf(x))
                /\ x.pc = "await" <=> x.trace[Len(x.trace)].type = "send"
                /\ \A i, j \in SendsOf(x) :
                       i < j => \E k \in (i + 1)..(j - 1) : x.trace[k].type = "recv")
    /\ [][\/ others' = others
          \/ \E g \in DOMAIN others :
                /\ others' = [others EXCEPT ![g] = Running]
                /\ Running' = others[g]]_vars
    /\ [][(/\ pc = "await" /\ others' = others
           /\ trace' = trace \o <<[type |-> "recv", nr |-> TRUE]>>)
             => frame'.retries = frame.retries - 1]_vars

\* two requests are in flight, of a goroutine that read no not-ready reply
\* and of one that read two
C17_Witness ==
    /\ NumCalls >= 2
    /\ pc = "await" /\ frame.retries = 3
    /\ others[1].pc = "await" /\ others[1].frame.retries = 1
    /\ Cardinality(NotReadyRepliesOf(others[1])) = 2

====
